---- MODULE Spec2Model ----
(***************************************************************************)
(* Model of the PDF translation pipeline of javonhe/LLM_dev:               *)
(*   PDFTranslator.translate_pdf  (ai_translator/translator/pdf_translator.py) *)
(*   OpenAIModel.make_request     (ai_translator/model/openai_model.py)    *)
(* One run of translate_pdf is a sequential program; `pc` is its position. *)
(* Indices are 1-based here, 0-based in the Python source.                 *)
(* Progress values are Python floats current/total*100; they are kept here *)
(* as exact fractions [num, den] and compared by cross-multiplication.     *)
(***************************************************************************)
EXTENDS Integers, Sequences, FiniteSets, TLC

\* ---------------------------------------------------------------- bounds
MaxPages == 2
MaxBlocks == 2
MaxSends == 4

\* ------------------------------------------------------ program constants
\* `while attempts < 3` / `if attempts < 3`
MaxAttempts == 3
\* time.sleep(60)
BackoffSeconds == 60

VARIABLES
    pc,               \* position of the translate_pdf run
    progress_callback,\* self.progress_callback is registered (truthy)
    book,             \* self.book: [pages |-> sequence of pages], a page is [contents |-> sequence of blocks]
    total,            \* local `total`
    current,          \* local `current`
    idx,              \* number of loop iterations begun (position in the nested for-loops)
    attempts,         \* local `attempts` of the running make_request call
    outcomes,         \* remote outcomes of the completion requests sent by the running make_request call
    slept,            \* seconds spent in time.sleep by the running make_request call
    result,           \* the pair returned by make_request: <<translation, status>>
    error,            \* the exception that left translate_pdf ("none" while there is none)
    promptCalls,      \* per block (visit order): translate_prompt calls
    requestCalls,     \* per block (visit order): make_request calls
    setCalls,         \* per block (visit order): set_translation calls
    cbLog,            \* arguments the progress callback was invoked with, in order
    writerCalls       \* calls of writer.save_translated_book

vars == <<pc, progress_callback, book, total, current, idx, attempts, outcomes, slept,
          result, error, promptCalls, requestCalls, setCalls, cbLog, writerCalls>>

\* State of the front ends (ai_translator/main.py, ai_translator/gui/main_window.py).
VARIABLES
    mode,             \* "cli" (len(sys.argv) > 1) or "gui" (len(sys.argv) == 1)
    env,              \* which of OPENAI_API_KEY / OPENAI_BASE_URL are set: [key, base]
    args,             \* parsed command-line arguments (None, empty or a value)
    config,           \* loaded config file values
    appPc,            \* "start", "gui" (mainloop is running) or "exited"
    exitCode,         \* process exit status once appPc = "exited"
    used,             \* model_name, api_key, pdf_file_path, file_format as computed by main.py
    gateway,          \* the model object last constructed: "none", "OpenAI" or "GLM"
    clicks,           \* presses of the translate button
    translateCalls,   \* calls of translate_pdf
    openaiRequests,   \* completion requests sent through an OpenAIModel
    popups,           \* texts shown by _show_message, in order
    uncaught          \* exceptions that left a handler uncaught (traceback on stderr)

appVars == <<mode, env, args, config, appPc, exitCode, used, gateway, clicks,
             translateCalls, openaiRequests, popups, uncaught>>

\* State of the weather assistant (ask_weather.py; function_call.py shares
\* check_environment and chat_completion_request).
VARIABLES
    wxPc,             \* position of main(): "start", "input", "chat1", "function", "chat2", "exited"
    wxEnv,            \* both environment variables are set (non-empty)
    messages,         \* the conversation: sequence of [role, call, name]
    turns,            \* user turns completed
    attempt,          \* attempt number of the running chat_completion_request call (retry decorator)
    callPosts,        \* HTTP POSTs sent by the running chat_completion_request call
    lastCall,         \* summary of the last finished chat_completion_request call
    wxExit            \* exit status of the weather assistant (-1 while running)

wxVars == <<wxPc, wxEnv, messages, turns, attempt, callPosts, lastCall, wxExit>>

\* State of one get_forecast_weather call (ask_weather.py).
VARIABLES
    fcPc,             \* position of the call: "key", "geo", "weather", "returned"
    amapKey,          \* AMAP_API_KEY is set (non-empty)
    num_days,         \* the day count the caller passed (execute_function_call's num_days)
    days,             \* parameter / local `days`
    casts,            \* forecast_data["forecasts"][0]["casts"] (empty until fetched)
    fcResult          \* the returned text: [kind, header, entries] (kind "none" while the call runs)

fcVars == <<fcPc, amapKey, num_days, days, casts, fcResult>>

\* Everything that translate_pdf and make_request leave alone.
outsideTranslator == <<appVars, wxVars, fcVars>>

\* ------------------------------------------------------------ data model
\* A content block before set_translation: no translation, no status (the
\* Content class is not among the sources; its initial state follows the data model).
UnsetBlock == [set |-> FALSE, translation |-> <<>>, status |-> FALSE]

\* The document the parser returns for a file whose pages hold lens[p] blocks.
NewBook(lens) ==
    [pages |-> [p \in 1..Len(lens) |-> [contents |-> [c \in 1..lens[p] |-> UnsetBlock]]]]

\* The shapes of the documents a parse can return.
DocShapes == UNION {[1..n -> 0..MaxBlocks] : n \in 0..MaxPages}

RECURSIVE SumLens(_, _)
SumLens(bk, p) ==
    IF p = 0 THEN 0 ELSE SumLens(bk, p - 1) + Len(bk.pages[p].contents)

\* total = sum(len(page.contents) for page in self.book.pages)
Total(bk) == SumLens(bk, Len(bk.pages))

\* The visit order of the nested loops
\*   for page_idx, page in enumerate(pages): for content_idx, content in enumerate(page.contents)
\* as the sequence of <<page_idx, content_idx>> pairs.
RECURSIVE OrderUpTo(_, _)
OrderUpTo(bk, p) ==
    IF p = 0 THEN <<>>
    ELSE OrderUpTo(bk, p - 1) \o [c \in 1..Len(bk.pages[p].contents) |-> <<p, c>>]

\* Variant: the pages are visited last to first.
OrderReversed(bk) ==
    LET o == OrderUpTo(bk, Len(bk.pages))
    IN [k \in 1..Len(o) |-> o[Len(o) + 1 - k]]

Order(bk) == OrderUpTo(bk, Len(bk.pages))

Block(bk, pos) == bk.pages[pos[1]].contents[pos[2]]

\* str.strip() on a text kept as a sequence of characters.
RECURSIVE LStrip(_)
LStrip(s) == IF s # <<>> /\ Head(s) = " " THEN LStrip(Tail(s)) ELSE s

RECURSIVE RStrip(_)
RStrip(s) ==
    IF s # <<>> /\ s[Len(s)] = " " THEN RStrip(SubSeq(s, 1, Len(s) - 1)) ELSE s

Strip(s) == RStrip(LStrip(s))

\* Texts the remote service may answer with.
ReplyTexts == {<<"a">>, <<" ", "a", " ">>}

\* Outcomes of one completion request, by the except clause that takes it:
\*   "ok"          the request returns and the text is extracted
\*   "rate_limit"  openai.RateLimitError
\*   "connection"  openai.APIConnectionError
\*   "auth"        openai.AuthenticationError, a subclass of openai.APIStatusError
\*   "status"      any other openai.APIStatusError that is not a rate limit
\*   "other"       any other Exception
Outcomes == {"ok", "rate_limit", "connection", "auth", "status", "other"}

\* ------------------------------------------------------------- operators
\* Variant: floor division, current//total*100.
ProgressValueFloorDiv(cur, tot) == [num |-> (cur \div tot) * 100, den |-> 1]

\* The argument of the progress callback: current/total*100.
ProgressValue(cur, tot) == [num |-> cur * 100, den |-> tot]

\* Variant: the translation is written to every block of the page.
SetTranslationWholePage(bk, pos, res) ==
    [bk EXCEPT !.pages[pos[1]].contents =
        [c \in 1..Len(@) |-> [set |-> TRUE, translation |-> res[1], status |-> res[2]]]]

\* contents[content_idx].set_translation(translation, status) on block pos.
SetTranslation(bk, pos, res) ==
    [bk EXCEPT !.pages[pos[1]].contents[pos[2]] =
        [set |-> TRUE, translation |-> res[1], status |-> res[2]]]

\* Variant: `if attempts <= 3`.
ShouldSleepInclusive(att) == att <= MaxAttempts

\* The test of the RateLimitError handler, after attempts += 1: sleep and retry, or raise.
ShouldSleep(att) == att < MaxAttempts

Zeros(n) == [k \in 1..n |-> 0]

Bump(calls, k) == [calls EXCEPT ![k] = @ + 1]

Count(seq, x) == Cardinality({i \in 1..Len(seq) : seq[i] = x})

\* ------------------------------------------------------------------ Init
\* A missing value: Python None (an argument not given, a variable never assigned).
None == "None"

ConfigInputs == {"model", "api_key", "book", "file_format"}

\* The front ends are not running.
AppParked ==
    /\ mode = "none"
    /\ env = [key |-> TRUE, base |-> TRUE]
    /\ args = [f \in ConfigInputs |-> None]
    /\ config = [f \in ConfigInputs |-> None]
    /\ appPc = "parked"
    /\ exitCode = -1
    /\ used = [f \in ConfigInputs |-> None]
    /\ gateway = "none"
    /\ clicks = 0
    /\ translateCalls = 0
    /\ openaiRequests = 0
    /\ popups = <<>>
    /\ uncaught = 0

\* The weather assistant is not running.
WeatherParked ==
    /\ wxPc = "parked"
    /\ wxEnv = TRUE
    /\ messages = <<>>
    /\ turns = 0
    /\ attempt = 0
    /\ callPosts = 0
    /\ lastCall = [result |-> None, posts |-> 0, attempts |-> 0]
    /\ wxExit = -1

\* No get_forecast_weather call is running.
ForecastParked ==
    /\ fcPc = "parked"
    /\ amapKey = TRUE
    /\ num_days = 0
    /\ days = 0
    /\ casts = <<>>
    /\ fcResult = [kind |-> "none", header |-> 0, entries |-> <<>>]

\* A PDFTranslator has been constructed (with or without a progress callback)
\* and translate_pdf has just been called.
Init ==
    /\ pc = "parse"
    /\ progress_callback \in BOOLEAN
    /\ book = [pages |-> <<>>]
    /\ total = 0
    /\ current = 0
    /\ idx = 0
    /\ attempts = 0
    /\ outcomes = <<>>
    /\ slept = 0
    /\ result = <<<<>>, FALSE>>
    /\ error = "none"
    /\ promptCalls = <<>>
    /\ requestCalls = <<>>
    /\ setCalls = <<>>
    /\ cbLog = <<>>
    /\ writerCalls = 0
    /\ AppParked
    /\ WeatherParked
    /\ ForecastParked

\* --------------------------------------------------------- translate_pdf
\* Variant: the loop is left on a gateway error and the document is still saved.
PropagateThenSave(kind) ==
    /\ pc' = "save"
    /\ error' = kind
    /\ UNCHANGED <<book, current, idx, result, promptCalls, requestCalls, setCalls,
                   cbLog, writerCalls>>

\* An exception leaves the frame it is raised in; translate_pdf has no try
\* statement, so it leaves translate_pdf too and nothing after it runs.
Propagate(kind) ==
    /\ pc' = "raised"
    /\ error' = kind
    /\ UNCHANGED <<book, current, idx, result, promptCalls, requestCalls, setCalls,
                   cbLog, writerCalls>>

\* self.book = self.pdf_parser.parse_pdf(...) returns a document; total and current are set.
ParseOk ==
    /\ pc = "parse"
    /\ UNCHANGED outsideTranslator
    /\ \E lens \in DocShapes :
        /\ book' = NewBook(lens)
        /\ total' = Total(NewBook(lens))
        /\ promptCalls' = Zeros(Len(Order(NewBook(lens))))
        /\ requestCalls' = Zeros(Len(Order(NewBook(lens))))
        /\ setCalls' = Zeros(Len(Order(NewBook(lens))))
    /\ current' = 0
    /\ pc' = "loop"
    /\ UNCHANGED <<progress_callback, idx, attempts, outcomes, slept, result, error,
                   cbLog, writerCalls>>

\* Variant: the parse error is swallowed and the run goes on with an empty document.
ParseFailSwallowed ==
    /\ pc = "parse"
    /\ UNCHANGED outsideTranslator
    /\ pc' = "loop"
    /\ error' = "ParseError"
    /\ UNCHANGED <<progress_callback, book, total, current, idx, attempts, outcomes, slept,
                   result, promptCalls, requestCalls, setCalls, cbLog, writerCalls>>

\* parse_pdf raises: the exception leaves translate_pdf at its first statement.
ParseFail ==
    /\ pc = "parse"
    /\ UNCHANGED outsideTranslator
    /\ pc' = "raised"
    /\ error' = "ParseError"
    /\ UNCHANGED <<progress_callback, book, total, current, idx, attempts, outcomes, slept,
                   result, promptCalls, requestCalls, setCalls, cbLog, writerCalls>>

\* The loops yield the next block: translate_prompt is called on it and
\* make_request is entered (attempts = 0).
BeginBlock ==
    /\ pc = "loop"
    /\ UNCHANGED outsideTranslator
    /\ idx < Len(Order(book))
    /\ idx' = idx + 1
    /\ promptCalls' = Bump(promptCalls, idx + 1)
    /\ requestCalls' = Bump(requestCalls, idx + 1)
    /\ attempts' = 0
    /\ outcomes' = <<>>
    /\ slept' = 0
    /\ pc' = "request"
    /\ UNCHANGED <<progress_callback, book, total, current, result, error, setCalls,
                   cbLog, writerCalls>>

\* Variant: the loops are left after any block and the document is saved.
EndLoopEarly ==
    /\ pc = "loop"
    /\ UNCHANGED outsideTranslator
    /\ idx >= 1 \/ idx = Len(Order(book))
    /\ pc' = "save"
    /\ UNCHANGED <<progress_callback, book, total, current, idx, attempts, outcomes, slept,
                   result, error, promptCalls, requestCalls, setCalls, cbLog, writerCalls>>

\* The loops are exhausted: control reaches the save_translated_book statement.
EndLoop ==
    /\ pc = "loop"
    /\ UNCHANGED outsideTranslator
    /\ idx = Len(Order(book))
    /\ pc' = "save"
    /\ UNCHANGED <<progress_callback, book, total, current, idx, attempts, outcomes, slept,
                   result, error, promptCalls, requestCalls, setCalls, cbLog, writerCalls>>

\* make_request has returned: set_translation(translation, status) on the block.
StoreTranslation ==
    /\ pc = "returned"
    /\ UNCHANGED outsideTranslator
    /\ book' = SetTranslation(book, Order(book)[idx], result)
    /\ setCalls' = Bump(setCalls, idx)
    /\ attempts' = 0
    /\ outcomes' = <<>>
    /\ slept' = 0
    /\ pc' = "progress"
    /\ UNCHANGED <<progress_callback, total, current, idx, result, error, promptCalls,
                   requestCalls, cbLog, writerCalls>>

\* current += 1; if self.progress_callback: self.progress_callback(current/total*100)
ReportProgress ==
    /\ pc = "progress"
    /\ UNCHANGED outsideTranslator
    /\ current' = current + 1
    /\ IF progress_callback /\ total = 0
       THEN /\ pc' = "raised"
            /\ error' = "ZeroDivisionError"
            /\ UNCHANGED cbLog
       ELSE /\ pc' = "loop"
            /\ cbLog' = IF progress_callback
                        THEN Append(cbLog, ProgressValue(current + 1, total))
                        ELSE cbLog
            /\ UNCHANGED error
    /\ UNCHANGED <<progress_callback, book, total, idx, attempts, outcomes, slept, result,
                   promptCalls, requestCalls, setCalls, writerCalls>>

\* Variant: a document without blocks is not written.
SaveUnlessEmpty ==
    /\ pc = "save"
    /\ UNCHANGED outsideTranslator
    /\ writerCalls' = IF total = 0 THEN writerCalls ELSE writerCalls + 1
    /\ \E ok \in BOOLEAN :
        IF ok \/ total = 0 THEN pc' = "done" /\ UNCHANGED error
        ELSE pc' = "raised" /\ error' = "WriteError"
    /\ UNCHANGED <<progress_callback, book, total, current, idx, attempts, outcomes, slept,
                   result, promptCalls, requestCalls, setCalls, cbLog>>

\* self.writer.save_translated_book(self.book, output_file_path, file_format):
\* the writer returns, or raises and the exception leaves translate_pdf.
Save ==
    /\ pc = "save"
    /\ UNCHANGED outsideTranslator
    /\ writerCalls' = writerCalls + 1
    /\ \E ok \in BOOLEAN :
        IF ok THEN pc' = "done" /\ UNCHANGED error
        ELSE pc' = "raised" /\ error' = "WriteError"
    /\ UNCHANGED <<progress_callback, book, total, current, idx, attempts, outcomes, slept,
                   result, promptCalls, requestCalls, setCalls, cbLog>>

\* ---------------------------------------------------------- make_request
\* Back to `while attempts < 3`: another request, or the loop ends and
\* `return "", False` is executed.
LoopAgain(att) ==
    IF att < MaxAttempts
    THEN pc' = "request" /\ UNCHANGED result
    ELSE pc' = "returned" /\ result' = <<<<>>, FALSE>>

\* The request returns (chat.completions.create for "gpt-3.5-turbo",
\* completions.create for any other model name; both are one request and both
\* strip the text); return translation, True.
RequestOk ==
    /\ pc = "request"
    /\ UNCHANGED outsideTranslator
    /\ Len(outcomes) < MaxSends
    /\ outcomes' = Append(outcomes, "ok")
    /\ \E raw \in ReplyTexts : result' = <<Strip(raw), TRUE>>
    /\ pc' = "returned"
    /\ UNCHANGED <<progress_callback, book, total, current, idx, attempts, slept, error,
                   promptCalls, requestCalls, setCalls, cbLog, writerCalls>>

\* Variant: the handler does not raise after the last attempt; the loop ends.
RateLimitedNoRaise ==
    /\ pc = "request"
    /\ UNCHANGED outsideTranslator
    /\ Len(outcomes) < MaxSends
    /\ outcomes' = Append(outcomes, "rate_limit")
    /\ attempts' = attempts + 1
    /\ IF ShouldSleep(attempts + 1)
       THEN pc' = "sleep" /\ UNCHANGED result
       ELSE LoopAgain(attempts + 1)
    /\ UNCHANGED <<progress_callback, book, total, current, idx, slept, error,
                   promptCalls, requestCalls, setCalls, cbLog, writerCalls>>

\* except openai.RateLimitError: attempts += 1; sleep 60 s and retry, or raise.
RateLimited ==
    /\ pc = "request"
    /\ UNCHANGED outsideTranslator
    /\ Len(outcomes) < MaxSends
    /\ outcomes' = Append(outcomes, "rate_limit")
    /\ attempts' = attempts + 1
    /\ IF ShouldSleep(attempts + 1)
       THEN /\ pc' = "sleep"
            /\ UNCHANGED <<book, current, idx, result, error, promptCalls, requestCalls,
                           setCalls, cbLog, writerCalls>>
       ELSE Propagate("RateLimitExceeded")
    /\ UNCHANGED <<progress_callback, total, slept>>

\* time.sleep(60) returns; control goes back to the while test.
WakeUp ==
    /\ pc = "sleep"
    /\ UNCHANGED outsideTranslator
    /\ slept' = slept + BackoffSeconds
    /\ LoopAgain(attempts)
    /\ UNCHANGED <<progress_callback, book, total, current, idx, attempts, outcomes, error,
                   promptCalls, requestCalls, setCalls, cbLog, writerCalls>>

\* except openai.APIConnectionError: two prints, nothing else; back to the while test.
ConnectionError ==
    /\ pc = "request"
    /\ UNCHANGED outsideTranslator
    /\ Len(outcomes) < MaxSends
    /\ outcomes' = Append(outcomes, "connection")
    /\ LoopAgain(attempts)
    /\ UNCHANGED <<progress_callback, book, total, current, idx, attempts, slept, error,
                   promptCalls, requestCalls, setCalls, cbLog, writerCalls>>

\* except openai.APIStatusError (kind "auth" or "status"): three prints, nothing
\* else; back to the while test.
StatusError(kind) ==
    /\ pc = "request"
    /\ UNCHANGED outsideTranslator
    /\ Len(outcomes) < MaxSends
    /\ outcomes' = Append(outcomes, kind)
    /\ LoopAgain(attempts)
    /\ UNCHANGED <<progress_callback, book, total, current, idx, attempts, slept, error,
                   promptCalls, requestCalls, setCalls, cbLog, writerCalls>>

\* except Exception as e: raise Exception(...): the wrapped error leaves make_request.
OtherError ==
    /\ pc = "request"
    /\ UNCHANGED outsideTranslator
    /\ Len(outcomes) < MaxSends
    /\ outcomes' = Append(outcomes, "other")
    /\ Propagate("Unknown")
    /\ UNCHANGED <<progress_callback, total, attempts, slept>>

Next ==
    \/ ParseOk
    \/ ParseFail
    \/ BeginBlock
    \/ EndLoop
    \/ StoreTranslation
    \/ ReportProgress
    \/ Save
    \/ RequestOk
    \/ RateLimited
    \/ WakeUp
    \/ ConnectionError
    \/ \E kind \in {"auth", "status"} : StatusError(kind)
    \/ OtherError

Spec == Init /\ [][Next]_vars

\* ------------------------------------------------------------ type check
TypeOK ==
    /\ pc \in {"parse", "loop", "request", "sleep", "returned", "progress", "save",
               "done", "raised"}
    /\ progress_callback \in BOOLEAN
    /\ total \in Nat /\ current \in Nat /\ idx \in Nat
    /\ attempts \in 0..MaxAttempts
    /\ Len(outcomes) <= MaxSends
    /\ result[2] \in BOOLEAN
    /\ writerCalls \in Nat

\* ---------------------------------------------------------------- claims
NBlocks == Len(Order(book))

Last(seq) == seq[Len(seq)]

AllButLast(seq) == SubSeq(seq, 1, Len(seq) - 1)

\* The running or last make_request call has ended by a raise.
GatewayRaised == error \in {"RateLimitExceeded", "Unknown"}

\* C1: with a progress callback registered, the k-th invocation carries
\* k/total*100; the values are strictly increasing and lie in (0,100]; after a
\* run over N >= 1 blocks that completed, there were exactly N invocations and
\* the last value is exactly 100.
C1_ProgressSequence ==
    LET ord == Order(book)
    IN
        progress_callback =>
            /\ Len(cbLog) = current
            /\ \A k \in 1..Len(cbLog) :
                /\ cbLog[k] = [num |-> k * 100, den |-> total]
                /\ cbLog[k].den > 0
                /\ cbLog[k].num > 0
                /\ cbLog[k].num <= 100 * cbLog[k].den
            /\ \A k \in 1..(Len(cbLog) - 1) :
                cbLog[k].num * cbLog[k + 1].den < cbLog[k + 1].num * cbLog[k].den
            /\ (pc = "done" /\ total >= 1) =>
                /\ Len(cbLog) = total
                /\ total = Len(ord)
                /\ Last(cbLog).num = 100 * Last(cbLog).den

C1_Witness ==
    /\ pc = "done"
    /\ progress_callback
    /\ NBlocks = 3
    /\ Len(cbLog) = 3
    /\ Last(cbLog).num = 100 * Last(cbLog).den

\* C2: a block's translation fields are unset until the loop visits it and are
\* set once; per block there is one translate_prompt call, one make_request
\* call and one set_translation call, never a second one; after a run that
\* completed every block has its status set.
C2_SetExactlyOnce ==
    LET ord == Order(book)
    IN
        pc # "parse" =>
            /\ Len(promptCalls) = Len(ord)
            /\ Len(requestCalls) = Len(ord)
            /\ Len(setCalls) = Len(ord)
            /\ \A k \in 1..Len(ord) :
                /\ promptCalls[k] = (IF k <= idx THEN 1 ELSE 0)
                /\ requestCalls[k] = (IF k <= idx THEN 1 ELSE 0)
                /\ setCalls[k] <= promptCalls[k]
                /\ Block(book, ord[k]).set <=> setCalls[k] = 1
                /\ setCalls[k] = 0 => Block(book, ord[k]) = UnsetBlock
                /\ pc = "done" => setCalls[k] = 1

C2_Witness ==
    /\ pc = "done"
    /\ Len(book.pages) = 2
    /\ NBlocks = 3
    /\ \A k \in 1..NBlocks : Block(book, Order(book)[k]).set

\* C3 (as claimed): a rate-limit signal on all 3 attempts of one make_request
\* call makes the call return ("", false) without raising.
C3_RateLimitReturnsFalse ==
    outcomes = <<"rate_limit", "rate_limit", "rate_limit">> =>
        /\ pc = "returned"
        /\ result = <<<<>>, FALSE>>
        /\ error = "none"

\* C4 (as claimed): an authentication or connection failure of a completion
\* request is raised out of make_request on that attempt and ends the run.
C4_ConnectionFailureRaises ==
    (outcomes # <<>> /\ Last(outcomes) \in {"connection", "auth"}) =>
        /\ pc = "raised"
        /\ error # "none"

\* C5 (as claimed): one make_request call sends at most 3 completion requests.
C5_AtMostThreeRequests == Len(outcomes) <= MaxAttempts

\* C6: rate-limit on attempts 1 and 2 and success on attempt 3 returns
\* (translation, true) after 3 requests and 2 waits of 60 s; a wait follows a
\* rate-limited attempt exactly when another attempt follows it, never the
\* last attempt of the call.
C6_BackoffWaits ==
    /\ (pc = "returned" /\ outcomes = <<"rate_limit", "rate_limit", "ok">>) =>
        /\ result[2] = TRUE
        /\ result[1] \in {Strip(raw) : raw \in ReplyTexts}
        /\ slept = 2 * BackoffSeconds
    /\ pc = "sleep" =>
        /\ attempts < MaxAttempts
        /\ Last(outcomes) = "rate_limit"
        /\ slept = BackoffSeconds * Count(AllButLast(outcomes), "rate_limit")
    /\ pc = "request" =>
        slept = BackoffSeconds * Count(outcomes, "rate_limit")
    /\ (pc = "returned" \/ GatewayRaised) =>
        slept = BackoffSeconds * Count(AllButLast(outcomes), "rate_limit")

C6_Witness ==
    /\ pc = "returned"
    /\ outcomes = <<"rate_limit", "rate_limit", "ok">>
    /\ result = <<<<"a">>, TRUE>>
    /\ slept = 2 * BackoffSeconds

\* C7 (as claimed): a block whose gateway call fails is recorded with the empty
\* string and status false, and the failure of one block never ends the run.
C7_BlockFailureAbsorbed ==
    LET ord == Order(book)
    IN
        /\ \A k \in 1..Len(ord) :
            LET b == Block(book, ord[k])
            IN (b.set /\ ~b.status) => b.translation = <<>>
        /\ attempts = MaxAttempts => (pc # "raised" /\ error = "none")

\* C8: when make_request raises while block k is translated, the run has
\* ended with that exception: block k and the later blocks are unset, the
\* callback was invoked for the earlier blocks only, and the writer was not
\* invoked.
C8_RaiseAbortsRun ==
    LET ord == Order(book)
    IN
        GatewayRaised =>
            /\ pc = "raised"
            /\ idx >= 1
            /\ writerCalls = 0
            /\ current = idx - 1
            /\ Len(cbLog) <= idx - 1
            /\ \A k \in idx..Len(ord) :
                /\ Block(book, ord[k]) = UnsetBlock
                /\ setCalls[k] = 0

C8_Witness ==
    /\ GatewayRaised
    /\ pc = "raised"
    /\ idx = 2
    /\ NBlocks = 3
    /\ Block(book, Order(book)[1]).set
    /\ Len(cbLog) = 1

\* C9: when parsing fails the run has ended with no translate_prompt call, no
\* make_request call, no completion request, no progress callback and no
\* writer call.
C9_ParseFailureFirst ==
    error = "ParseError" =>
        /\ pc = "raised"
        /\ idx = 0
        /\ promptCalls = <<>>
        /\ requestCalls = <<>>
        /\ outcomes = <<>>
        /\ cbLog = <<>>
        /\ writerCalls = 0

C9_Witness ==
    /\ error = "ParseError"
    /\ pc = "raised"
    /\ writerCalls = 0

\* C10: for a parsed document without content blocks the run makes no gateway
\* call and no callback call, raises no division error, and reaches the writer,
\* which is invoked exactly once.
C10_EmptyDocument ==
    LET ord == Order(book)
    IN
        (pc # "parse" /\ error # "ParseError" /\ Len(ord) = 0) =>
            /\ total = 0
            /\ pc \in {"loop", "save", "done", "raised"}
            /\ error \in {"none", "WriteError"}
            /\ pc = "raised" <=> error = "WriteError"
            /\ idx = 0
            /\ outcomes = <<>>
            /\ cbLog = <<>>
            /\ writerCalls = (IF pc \in {"done", "raised"} THEN 1 ELSE 0)

C10_Witness ==
    /\ pc = "done"
    /\ Len(book.pages) = 2
    /\ NBlocks = 0
    /\ progress_callback
    /\ writerCalls = 1

\* a comes before b in page order, then block order.
LexLess(a, b) == a[1] < b[1] \/ (a[1] = b[1] /\ a[2] < b[2])

\* C12: blocks are processed in page order and, within a page, in block order;
\* the gateway call of a block begins only after every earlier block has had
\* its translation stored and its progress reported, so at most one block has
\* a gateway call begun and not yet stored.
C12_StrictlySequential ==
    LET ord == Order(book)
    IN
        pc # "parse" =>
            /\ \A k \in 1..(Len(ord) - 1) : LexLess(ord[k], ord[k + 1])
            /\ \A k \in 1..Len(ord) :
                requestCalls[k] >= 1 =>
                    \A j \in 1..(k - 1) :
                        /\ setCalls[j] = 1
                        /\ Block(book, ord[j]).set
                        /\ current >= j
                        /\ progress_callback => Len(cbLog) >= j
            /\ Cardinality({k \in 1..Len(ord) : requestCalls[k] >= 1 /\ setCalls[k] = 0}) <= 1
            /\ pc \in {"request", "sleep"} =>
                /\ requestCalls[idx] = 1
                /\ setCalls[idx] = 0
                /\ current = idx - 1

C12_Witness ==
    /\ pc = "request"
    /\ outcomes = <<"connection">>
    /\ idx = 3
    /\ Order(book)[idx][1] = 2
    /\ progress_callback
    /\ Len(cbLog) = 2
    /\ Block(book, Order(book)[2]).set

\* C13: the writer is invoked at most once, only when every block has had its
\* translation set, and once it has been invoked the run has ended, so no block
\* is set afterwards.
C13_WriterLast ==
    LET ord == Order(book)
    IN
        /\ writerCalls <= 1
        /\ writerCalls = 1 =>
            /\ pc \in {"done", "raised"}
            /\ error \in {"none", "WriteError"}
            /\ idx = Len(ord)
            /\ \A k \in 1..Len(ord) :
                /\ setCalls[k] = 1
                /\ Block(book, ord[k]).set
        /\ pc = "done" => writerCalls = 1

C13_Witness ==
    /\ writerCalls = 1
    /\ pc = "done"
    /\ NBlocks = 3
    /\ \A k \in 1..NBlocks : setCalls[k] = 1

\* C14 (as claimed): an outcome that is not a success, a rate limit or an
\* authentication/connection failure (a non-2xx status error included) makes
\* make_request raise a wrapped error on that attempt.
C14_UnexpectedOutcomeRaises ==
    (outcomes # <<>> /\ Last(outcomes) \in {"status", "other"}) =>
        /\ pc = "raised"
        /\ error = "Unknown"

\* C18: every normal return of make_request carries success = true, so no
\* block is ever recorded with status false.
C18_ReturnsOnlySuccess ==
    LET ord == Order(book)
    IN
        /\ pc = "returned" => result[2] = TRUE
        /\ pc # "parse" =>
            \A k \in 1..Len(ord) :
                Block(book, ord[k]).set => Block(book, ord[k]).status
        /\ attempts = MaxAttempts => pc = "raised"

C18_Witness ==
    /\ pc = "returned"
    /\ outcomes = <<"rate_limit", "connection", "rate_limit", "ok">>
    /\ result[2] = TRUE

\* =================================================================== front ends
\* ai_translator/main.py (CLI) and ai_translator/gui/main_window.py (GUI),
\* with OpenAIModel.__init__.  A translate_pdf run is summarised here by how it
\* ends and how many completion requests it sent.
MaxClicks == 2
MaxAppRequests == 3

\* translate_pdf and make_request are not running.
TranslatorParked ==
    /\ pc = "parked"
    /\ progress_callback = FALSE
    /\ book = [pages |-> <<>>]
    /\ total = 0
    /\ current = 0
    /\ idx = 0
    /\ attempts = 0
    /\ outcomes = <<>>
    /\ slept = 0
    /\ result = <<<<>>, FALSE>>
    /\ error = "none"
    /\ promptCalls = <<>>
    /\ requestCalls = <<>>
    /\ setCalls = <<>>
    /\ cbLog = <<>>
    /\ writerCalls = 0

\* Values an argparse argument can have: not given, given empty, given.
ArgValues == {None, "", "cli"}

\* Values a config key can have: missing, present.
ConfigValues == {None, "cfg"}

KeyError == "KeyError"

\* `args.x if args.x else config[section][x]`: the argument when it is truthy,
\* else the config value (a KeyError when the key is missing).
Merge(arg, cfg) ==
    IF arg \notin {None, ""} THEN arg
    ELSE IF cfg = None THEN KeyError ELSE cfg

\* OpenAIModel.__init__(self, model): any other keyword is a TypeError; the
\* OpenAI client raises when no API key is available; a base URL of None
\* makes the client use its default URL.
OpenAIModelInit(kwargs, e) ==
    IF ~(kwargs \subseteq {"model"}) THEN "TypeError"
    ELSE IF ~e.key THEN "OpenAIError"
    ELSE "ok"

\* The ways a translate_pdf run ends, with the completion requests it sent: a
\* parse error precedes every request, giving up on rate limits takes
\* MaxAttempts requests, a wrapped error at least one.
TranslateRuns ==
    {r \in [outcome : {"done", "ParseError", "RateLimitExceeded", "Unknown", "WriteError"},
            requests : 0..MaxAppRequests] :
        /\ r.outcome = "ParseError" => r.requests = 0
        /\ r.outcome = "RateLimitExceeded" => r.requests >= MaxAttempts
        /\ r.outcome = "Unknown" => r.requests >= 1}

AppInit ==
    /\ mode \in {"cli", "gui"}
    /\ env \in [key : BOOLEAN, base : BOOLEAN]
    /\ args \in [ConfigInputs -> ArgValues]
    /\ mode = "gui" => args = [f \in ConfigInputs |-> None]
    /\ config \in [ConfigInputs -> ConfigValues]
    /\ appPc = "start"
    /\ exitCode = -1
    /\ used = [f \in ConfigInputs |-> None]
    /\ gateway = "none"
    /\ clicks = 0
    /\ translateCalls = 0
    /\ openaiRequests = 0
    /\ popups = <<>>
    /\ uncaught = 0
    /\ TranslatorParked
    /\ WeatherParked
    /\ ForecastParked

\* main.py in command-line mode, from parse_arguments to the end of the
\* process: the four inputs are merged in source order, the model is
\* constructed with model= and api_key=, then translate_pdf runs.  An
\* exception at any statement is uncaught: traceback, exit status 1.
MainCLI ==
    /\ appPc = "start"
    /\ mode = "cli"
    /\ LET m == Merge(args["model"], config["model"])
           k == IF m = KeyError THEN KeyError ELSE Merge(args["api_key"], config["api_key"])
           ctor == IF k = KeyError THEN KeyError
                   ELSE OpenAIModelInit({"model", "api_key"}, env)
           b == IF ctor # "ok" THEN KeyError ELSE Merge(args["book"], config["book"])
           ff == IF b = KeyError THEN KeyError
                 ELSE Merge(args["file_format"], config["file_format"])
           Val(x) == IF x = KeyError THEN None ELSE x
       IN /\ used' = [model |-> Val(m), api_key |-> Val(k), book |-> Val(b),
                      file_format |-> Val(ff)]
          /\ gateway' = IF ctor = "ok" THEN "OpenAI" ELSE gateway
          /\ \E run \in TranslateRuns :
                IF ff # KeyError
                THEN /\ translateCalls' = translateCalls + 1
                     /\ openaiRequests' = openaiRequests + run.requests
                     /\ exitCode' = (IF run.outcome = "done" THEN 0 ELSE 1)
                     /\ uncaught' = (IF run.outcome = "done" THEN uncaught ELSE uncaught + 1)
                ELSE /\ exitCode' = 1
                     /\ uncaught' = uncaught + 1
                     /\ UNCHANGED <<translateCalls, openaiRequests>>
    /\ appPc' = "exited"
    /\ UNCHANGED <<mode, env, args, config, clicks, popups>>
    /\ UNCHANGED <<vars, wxVars, fcVars>>

\* main.py without arguments: TranslationApp() is built and mainloop() runs.
StartGui ==
    /\ appPc = "start"
    /\ mode = "gui"
    /\ appPc' = "gui"
    /\ UNCHANGED <<mode, env, args, config, exitCode, used, gateway, clicks,
                   translateCalls, openaiRequests, popups, uncaught>>
    /\ UNCHANGED <<vars, wxVars, fcVars>>

\* TranslationApp._start_translation: the model is constructed outside the try
\* statement (an exception there leaves the callback: Tk reports the traceback
\* and the main loop goes on); translate_pdf runs inside it and ends in a popup.
StartTranslation(choice) ==
    /\ appPc = "gui"
    /\ clicks < MaxClicks
    /\ clicks' = clicks + 1
    /\ LET ctor == IF choice = "OpenAI" THEN OpenAIModelInit({"model"}, env) ELSE "ok"
       IN IF ctor # "ok"
          THEN /\ uncaught' = uncaught + 1
               /\ UNCHANGED <<gateway, translateCalls, openaiRequests, popups>>
          ELSE /\ gateway' = choice
               /\ translateCalls' = translateCalls + 1
               /\ \E run \in TranslateRuns :
                    /\ openaiRequests' = (IF choice = "OpenAI"
                                          THEN openaiRequests + run.requests
                                          ELSE openaiRequests)
                    /\ popups' = Append(popups,
                                        IF run.outcome = "done"
                                        THEN [kind |-> "info", text |-> "done"]
                                        ELSE [kind |-> "error", text |-> run.outcome])
               /\ UNCHANGED uncaught
    /\ UNCHANGED <<mode, env, args, config, appPc, exitCode, used>>
    /\ UNCHANGED <<vars, wxVars, fcVars>>

\* The window is closed: mainloop() returns and the process ends.
CloseGui ==
    /\ appPc = "gui"
    /\ appPc' = "exited"
    /\ exitCode' = 0
    /\ UNCHANGED <<mode, env, args, config, used, gateway, clicks, translateCalls,
                   openaiRequests, popups, uncaught>>
    /\ UNCHANGED <<vars, wxVars, fcVars>>

AppNext ==
    \/ MainCLI
    \/ StartGui
    \/ \E choice \in {"OpenAI", "GLM"} : StartTranslation(choice)
    \/ CloseGui

SpecApp == AppInit /\ [][AppNext]_appVars

ConfigComplete == \A f \in ConfigInputs : config[f] # None

\* C11 (as claimed): with OPENAI_API_KEY or OPENAI_BASE_URL missing no
\* OpenAIModel is ever constructed and no completion request is sent.
C11_MissingEnvFailsAtStartup ==
    (~env.key \/ ~env.base) =>
        /\ gateway # "OpenAI"
        /\ openaiRequests = 0

\* C15 (as claimed): in the GUI every press of the translate button ends in a
\* popup (success or error text); no failure leaves the handler uncaught.
C15_GuiFailureShowsPopup ==
    mode = "gui" =>
        /\ Len(popups) = clicks
        /\ uncaught = 0

\* C16 (as claimed): a CLI run with a complete configuration constructs the
\* model and reaches translate_pdf, and its exit status is zero exactly when
\* the translation run succeeded.
C16_CliReachesTranslate ==
    (mode = "cli" /\ appPc = "exited" /\ ConfigComplete /\ env.key /\ env.base) =>
        /\ gateway = "OpenAI"
        /\ translateCalls = 1

\* C17 (as claimed): each of the four inputs used by the CLI run is the
\* command-line argument when one is given and the config value otherwise.
C17_CliTakesPrecedence ==
    (mode = "cli" /\ appPc = "exited" /\ ConfigComplete) =>
        \A f \in ConfigInputs :
            used[f] = (IF args[f] # None THEN args[f] ELSE config[f])

\* ============================================================ weather assistant
\* ask_weather.py: main() with check_environment, add_message,
\* process_chat_response and chat_completion_request (the last also in
\* function_call.py, line for line).
MaxTurns == 2

\* stop=stop_after_attempt(MAX_RETRIES)
MAX_RETRIES == 3

\* Functions the model may ask for: the two declared ones and any other name.
FunctionNames == {"get_current_weather", "get_n_day_weather_forecast", "other"}

\* What one session.post can end in: a 200 response with choices, a non-200
\* response, a 200 response without "choices", or an exception.
PostOutcomes == {"ok", "status", "nochoices", "exception"}

\* add_message(messages, role, content, name): name is kept for role "function" only.
AddMessage(msgs, role, name) ==
    Append(msgs, [role |-> role, call |-> None,
                  name |-> IF role = "function" /\ name # None THEN name ELSE None])

\* messages.append(assistant_message): the reply as the service sent it.
AppendReply(msgs, call) ==
    Append(msgs, [role |-> "assistant", call |-> call, name |-> None])

\* Variant: the except clause re-raises, so the call does not end on an exception.
CallEndsUnlessException(outcome) == outcome # "exception"

\* Whether an attempt ends the chat_completion_request call: the POST is inside
\* try/except Exception and both branches return (the response, or the
\* exception as a value), so the retry decorator sees a normal return.
CallEnds(outcome) == TRUE

WxInit ==
    /\ wxPc = "start"
    /\ wxEnv \in BOOLEAN
    /\ messages = <<>>
    /\ turns = 0
    /\ attempt = 0
    /\ callPosts = 0
    /\ lastCall = [result |-> None, posts |-> 0, attempts |-> 0]
    /\ wxExit = -1
    /\ TranslatorParked
    /\ AppParked
    /\ ForecastParked

\* check_environment(); on success the system message opens the conversation,
\* on EnvironmentError the except clause of main prints and exits with 1.
CheckEnvironment ==
    /\ wxPc = "start"
    /\ IF wxEnv
       THEN /\ messages' = AddMessage(messages, "system", None)
            /\ wxPc' = "input"
            /\ UNCHANGED wxExit
       ELSE /\ wxPc' = "exited"
            /\ wxExit' = 1
            /\ UNCHANGED messages
    /\ UNCHANGED <<wxEnv, turns, attempt, callPosts, lastCall>>
    /\ UNCHANGED <<vars, appVars, fcVars>>

\* The user enters 'exit': break, main returns.
Quit ==
    /\ wxPc = "input"
    /\ wxPc' = "exited"
    /\ wxExit' = 0
    /\ UNCHANGED <<wxEnv, messages, turns, attempt, callPosts, lastCall>>
    /\ UNCHANGED <<vars, appVars, fcVars>>

\* The user enters a question: it is added and process_chat_response is called.
UserInput ==
    /\ wxPc = "input"
    /\ turns < MaxTurns
    /\ messages' = AddMessage(messages, "user", None)
    /\ attempt' = 1
    /\ callPosts' = 0
    /\ wxPc' = "chat1"
    /\ UNCHANGED <<wxEnv, turns, lastCall, wxExit>>
    /\ UNCHANGED <<vars, appVars, fcVars>>

\* One attempt of chat_completion_request and, when the call ends with it, the
\* rest of process_chat_response and of main up to the next call: exit(1) on
\* an exception value, a non-200 status or a reply without choices; else the
\* reply is appended, and a function call in the first reply of a turn leads to
\* execute_function_call, anything else ends the turn.
ChatAttempt(outcome, call) ==
    /\ wxPc \in {"chat1", "chat2"}
    /\ wxEnv
    /\ callPosts' = callPosts + 1
    /\ IF CallEnds(outcome)
       THEN /\ lastCall' = [result |-> outcome, posts |-> callPosts + 1, attempts |-> attempt]
            /\ UNCHANGED attempt
            /\ IF outcome # "ok"
               THEN /\ wxPc' = "exited"
                    /\ wxExit' = 1
                    /\ UNCHANGED <<messages, turns>>
               ELSE /\ messages' = AppendReply(messages, call)
                    /\ UNCHANGED wxExit
                    /\ IF wxPc = "chat1" /\ call # None
                       THEN wxPc' = "function" /\ UNCHANGED turns
                       ELSE wxPc' = "input" /\ turns' = turns + 1
       ELSE /\ UNCHANGED <<messages, turns>>
            /\ IF attempt < MAX_RETRIES
               THEN /\ attempt' = attempt + 1
                    /\ UNCHANGED <<wxPc, wxExit, lastCall>>
               ELSE /\ lastCall' = [result |-> "RetryError", posts |-> callPosts + 1,
                                    attempts |-> attempt]
                    /\ wxPc' = "exited"
                    /\ wxExit' = 1
                    /\ UNCHANGED attempt
    /\ UNCHANGED wxEnv
    /\ UNCHANGED <<vars, appVars, fcVars>>

\* execute_function_call on the first reply's function_call; its result is
\* added as a function message under the called name and the second
\* process_chat_response call begins; an exception ends main with exit(1).
ExecuteFunction ==
    /\ wxPc = "function"
    /\ \E ok \in BOOLEAN :
        IF ok
        THEN /\ messages' = AddMessage(messages, "function", messages[Len(messages)].call)
             /\ attempt' = 1
             /\ callPosts' = 0
             /\ wxPc' = "chat2"
             /\ UNCHANGED wxExit
        ELSE /\ wxPc' = "exited"
             /\ wxExit' = 1
             /\ UNCHANGED <<messages, attempt, callPosts>>
    /\ UNCHANGED <<wxEnv, turns, lastCall>>
    /\ UNCHANGED <<vars, appVars, fcVars>>

WxNext ==
    \/ CheckEnvironment
    \/ Quit
    \/ UserInput
    \/ \E outcome \in PostOutcomes, call \in FunctionNames \cup {None} :
            ChatAttempt(outcome, call)
    \/ ExecuteFunction

SpecWeather == WxInit /\ [][WxNext]_wxVars

\* C19 (as claimed): after every completed user turn each assistant message
\* with a function_call is directly followed by a function message of the
\* same name, and the history ends with an assistant message without one.
C19_HistoryWellFormed ==
    (wxPc = "input" /\ turns >= 1) =>
        /\ \A i \in 1..Len(messages) :
            (messages[i].role = "assistant" /\ messages[i].call # None) =>
                /\ i < Len(messages)
                /\ messages[i + 1].role = "function"
                /\ messages[i + 1].name = messages[i].call
        /\ messages[Len(messages)].role = "assistant"
        /\ messages[Len(messages)].call = None

\* C20: with the environment variables set, one chat_completion_request call
\* sends exactly one POST in one attempt: an exception of the POST comes back
\* as the call's value and the retry decorator never runs a second attempt.
C20_OnePostPerCall ==
    /\ callPosts <= 1
    /\ wxPc \in {"chat1", "chat2"} => (attempt = 1 /\ callPosts = 0)
    /\ lastCall.result # None =>
        /\ lastCall.posts = 1
        /\ lastCall.attempts = 1
        /\ lastCall.result \in PostOutcomes

C20_Witness ==
    /\ wxEnv
    /\ lastCall = [result |-> "exception", posts |-> 1, attempts |-> 1]
    /\ wxPc = "exited"
    /\ wxExit = 1
    /\ turns = 1

\* ================================================== get_forecast_weather
\* One call of get_forecast_weather(city, days) (ask_weather.py).  The
\* returned text is kept as [kind, header, entries]: `header` is the day count
\* formatted into the first line, `entries` the days listed below it.  A
\* forecast day is kept as its offset from today (casts[0] is today).

\* ---------------------------------------------------------------- bounds
MaxCasts == 4
MaxRequested == 5

\* The casts list of a forecast holding n days, today first.
Casts(n) == [i \in 1..n |-> i - 1]

\* What get_weather(adcode, api_key, forecast=True) may hand back: nothing
\* (status "none": a non-200 answer or an exception), or a document with a
\* status and a casts list.
ForecastData == {[status |-> st, casts |-> Casts(n)] : st \in {"none", "0", "1"}, n \in 0..MaxCasts}

\* Python's min(a, b) on integers.
Min2(a, b) == IF a <= b THEN a ELSE b

\* A slice bound of Python's s[start:stop] on a list of length n: a negative
\* bound counts from the end, and both ends are clamped to 0..n.
SliceBound(i, n) ==
    IF i < 0 THEN (IF i + n < 0 THEN 0 ELSE i + n)
    ELSE Min2(i, n)

\* Python's s[start:stop] on a list (0-based bounds, 1-based sequence here).
PySlice(s, start, stop) ==
    LET lo == SliceBound(start, Len(s))
        hi == SliceBound(stop, Len(s))
    IN [k \in 1..(IF hi > lo THEN hi - lo ELSE 0) |-> s[lo + k]]

\* days = min(days, max_days) if days > 0 else 1
ClampDays(d, max_days) == IF d > 0 THEN Min2(d, max_days) ELSE 1

\* The text built from a usable forecast: the header carries the clamped day
\* count, one entry follows for each day of forecasts[1:1+days].
ForecastText(d, forecasts) ==
    LET max_days == Len(forecasts) - 1
        clamped == ClampDays(d, max_days)
    IN [kind |-> "forecast",
        header |-> clamped,
        entries |-> PySlice(forecasts, 1, 1 + clamped)]

\* One of the three fixed texts returned before a forecast is built.
ErrorText(kind) == [kind |-> kind, header |-> 0, entries |-> <<>>]

\* get_forecast_weather has just been called with an integer day count.
FcInit ==
    /\ fcPc = "key"
    /\ amapKey \in BOOLEAN
    /\ num_days \in (0 - MaxRequested)..MaxRequested
    /\ days = num_days
    /\ casts = <<>>
    /\ fcResult = [kind |-> "none", header |-> 0, entries |-> <<>>]
    /\ TranslatorParked
    /\ AppParked
    /\ WeatherParked

\* api_key = os.getenv("AMAP_API_KEY"); if not api_key: return the error text.
CheckApiKey ==
    /\ fcPc = "key"
    /\ IF amapKey
       THEN /\ fcPc' = "geo"
            /\ UNCHANGED fcResult
       ELSE /\ fcPc' = "returned"
            /\ fcResult' = ErrorText("no_key")
    /\ UNCHANGED <<amapKey, num_days, days, casts>>
    /\ UNCHANGED <<vars, appVars, wxVars>>

\* adcode = get_city_code(city, api_key); if not adcode: return "city not found".
GetCityCode(adcode) ==
    /\ fcPc = "geo"
    /\ IF adcode # None
       THEN /\ fcPc' = "weather"
            /\ UNCHANGED fcResult
       ELSE /\ fcPc' = "returned"
            /\ fcResult' = ErrorText("no_city")
    /\ UNCHANGED <<amapKey, num_days, days, casts>>
    /\ UNCHANGED <<vars, appVars, wxVars>>

\* forecast_data = get_weather(...); with a usable document the day count is
\* clamped, the text is built and returned; otherwise the failure text.
GetForecast(forecast_data) ==
    /\ fcPc = "weather"
    /\ fcPc' = "returned"
    /\ IF forecast_data.status = "1"
       THEN /\ casts' = forecast_data.casts
            /\ days' = ClampDays(days, Len(forecast_data.casts) - 1)
            /\ fcResult' = ForecastText(days, forecast_data.casts)
       ELSE /\ fcResult' = ErrorText("failed")
            /\ UNCHANGED <<days, casts>>
    /\ UNCHANGED <<amapKey, num_days>>
    /\ UNCHANGED <<vars, appVars, wxVars>>

FcNext ==
    \/ CheckApiKey
    \/ \E adcode \in {None, "adcode"} : GetCityCode(adcode)
    \/ \E forecast_data \in ForecastData : GetForecast(forecast_data)

SpecForecast == FcInit /\ [][FcNext]_fcVars

\* C21 (as claimed): whenever get_forecast_weather returns a forecast, the
\* day count in its header equals the number of day entries listed below it,
\* and that number is at most the days available after today, len(casts) - 1.
C21_HeaderMatchesEntries ==
    (fcPc = "returned" /\ fcResult.kind = "forecast") =>
        /\ fcResult.header = Len(fcResult.entries)
        /\ Len(fcResult.entries) <= Len(casts) - 1

====
